---------------------------- MODULE Spec2Model ----------------------------
(***************************************************************************)
(* Model of 0x02-redis_basic: the instrumented Redis cache (exercise.py)   *)
(* and the memoizing page fetcher (web.py).                                *)
(*                                                                         *)
(* Python values are records [t |-> type name, v |-> payload]:             *)
(*   str    v = sequence of Unicode code points                            *)
(*   bytes  v = sequence of byte values 0..255                             *)
(*   int    v = the integer                                                *)
(*   float  v = the number of halves (3 is 1.5): the floats of the model   *)
(*              are the multiples of 0.5, which repr() prints exactly      *)
(*   None   v = 0                                                          *)
(*   exc    v = name of the exception raised instead of a value            *)
(***************************************************************************)
EXTENDS Integers, Sequences, FiniteSets, TLC

(* ----------------------------- bounds ---------------------------------- *)
\* store calls begun over a run
MaxCalls == 2
\* Cache objects constructed after the first one
MaxFlush == 1
\* get_page calls begun over a run
MaxPageCalls == 3
\* seconds the clock may advance over a run
MaxTime == 11

(* ------------------------- Python values ------------------------------- *)
PyStr(s)   == [t |-> "str", v |-> s]
PyBytes(b) == [t |-> "bytes", v |-> b]
PyInt(n)   == [t |-> "int", v |-> n]
PyFloat(h) == [t |-> "float", v |-> h]
None       == [t |-> "None", v |-> 0]
Raise(e)   == [t |-> "exc", v |-> e]

IsDigit(b) == b >= 48 /\ b <= 57

RECURSIVE NatToDigits(_)
NatToDigits(n) ==
    IF n < 10 THEN <<48 + n>> ELSE NatToDigits(n \div 10) \o <<48 + (n % 10)>>

\* repr(int): decimal digits, '-' (45) first when negative
IntRepr(n) == IF n < 0 THEN <<45>> \o NatToDigits(0 - n) ELSE NatToDigits(n)

\* repr(float) of a multiple of 0.5: "<int part>.0" or "<int part>.5"
FloatRepr(h) ==
    LET a == IF h < 0 THEN 0 - h ELSE h
        sign == IF h < 0 THEN <<45>> ELSE <<>>
    IN  sign \o NatToDigits(a \div 2) \o <<46, IF a % 2 = 0 THEN 48 ELSE 53>>

\* str.encode("utf-8") for code points below 2048
Utf8Char(cp) ==
    IF cp < 128 THEN <<cp>> ELSE <<192 + (cp \div 64), 128 + (cp % 64)>>

RECURSIVE Utf8Encode(_)
Utf8Encode(s) ==
    IF s = <<>> THEN <<>> ELSE Utf8Char(Head(s)) \o Utf8Encode(Tail(s))

\* bytes.decode("utf-8"): the code points, or <<-1>> when the bytes are not
\* UTF-8 (one- and two-byte forms; every other lead byte is rejected)
RECURSIVE Utf8Decode(_)
Utf8Decode(b) ==
    IF b = <<>> THEN <<>>
    ELSE IF Head(b) < 128 THEN
        LET rest == Utf8Decode(Tail(b))
        IN  IF rest = <<-1>> THEN <<-1>> ELSE <<Head(b)>> \o rest
    ELSE IF /\ Head(b) >= 194 /\ Head(b) <= 223 /\ Len(b) >= 2
            /\ b[2] >= 128 /\ b[2] <= 191 THEN
        LET rest == Utf8Decode(Tail(Tail(b)))
        IN  IF rest = <<-1>> THEN <<-1>>
            ELSE <<(Head(b) - 192) * 64 + (b[2] - 128)>> \o rest
    ELSE <<-1>>

Decode(b) ==
    LET s == Utf8Decode(b)
    IN  IF s = <<-1>> THEN Raise("UnicodeDecodeError") ELSE PyStr(s)

RECURSIVE DigitsToNat(_)
DigitsToNat(d) ==
    IF d = <<>> THEN 0
    ELSE DigitsToNat(SubSeq(d, 1, Len(d) - 1)) * 10 + (d[Len(d)] - 48)

AllDigits(d) == d # <<>> /\ \A i \in 1..Len(d) : IsDigit(d[i])

\* int(b): optional sign, then one or more decimal digits
ParseInt(b) ==
    LET neg  == b # <<>> /\ Head(b) = 45
        sgn  == b # <<>> /\ Head(b) \in {43, 45}
        body == IF sgn THEN Tail(b) ELSE b
    IN  IF AllDigits(body)
        THEN PyInt(IF neg THEN 0 - DigitsToNat(body) ELSE DigitsToNat(body))
        ELSE Raise("ValueError")

\* float(b): optional sign, digits, optionally '.' and one digit 0 or 5
ParseFloat(b) ==
    LET neg  == b # <<>> /\ Head(b) = 45
        sgn  == b # <<>> /\ Head(b) \in {43, 45}
        body == IF sgn THEN Tail(b) ELSE b
        n    == Len(body)
        frac == n >= 3 /\ body[n - 1] = 46 /\ body[n] \in {48, 53}
        ip   == IF frac THEN SubSeq(body, 1, n - 2) ELSE body
        h    == 2 * DigitsToNat(ip) + (IF frac /\ body[n] = 53 THEN 1 ELSE 0)
    IN  IF AllDigits(ip)
        THEN PyFloat(IF neg THEN 0 - h ELSE h)
        ELSE Raise("ValueError")


Hex(n) == IF n < 10 THEN 48 + n ELSE 87 + n

\* one byte as repr(bytes) shows it
ReprByte(b) ==
    IF b = 92 THEN <<92, 92>>
    ELSE IF b = 9 THEN <<92, 116>>
    ELSE IF b = 10 THEN <<92, 110>>
    ELSE IF b = 13 THEN <<92, 114>>
    ELSE IF b >= 32 /\ b <= 126 THEN <<b>>
    ELSE <<92, 120, Hex(b \div 16), Hex(b % 16)>>

RECURSIVE ReprBytes(_)
ReprBytes(b) ==
    IF b = <<>> THEN <<>> ELSE ReprByte(Head(b)) \o ReprBytes(Tail(b))

\* repr(x) as code points, for values holding no quote and no backslash
PyRepr(x) ==
    CASE x.t = "str"   -> <<39>> \o x.v \o <<39>>
      [] x.t = "bytes" -> <<98, 39>> \o ReprBytes(x.v) \o <<39>>
      [] x.t = "int"   -> IntRepr(x.v)
      [] x.t = "float" -> FloatRepr(x.v)
      [] x.t = "None"  -> <<78, 111, 110, 101>>

\* str(args) for the one-element tuple args = (x,): "(" repr(x) ",)"
StrArgs(x) == PyStr(<<40>> \o PyRepr(x) \o <<44, 41>>)

\* str(data): a str is its own str()
StrOf(x) == IF x.t = "str" THEN x ELSE PyStr(PyRepr(x))

\* what the Redis client sends for a value: bytes as they are, str as UTF-8,
\* int and float as the UTF-8 of their repr
Encode(x) ==
    CASE x.t = "bytes" -> x.v
      [] x.t = "str"   -> Utf8Encode(x.v)
      [] x.t = "int"   -> IntRepr(x.v)
      [] x.t = "float" -> FloatRepr(x.v)

(* ------------------------- the model's inputs -------------------------- *)
\* "", "e-acute" (two bytes in UTF-8), 0, 42, the byte ff (not UTF-8), 1.5
Values ==
    { PyStr(<<>>), PyStr(<<233>>), PyInt(0), PyInt(42),
      PyBytes(<<255>>), PyFloat(3) }

\* the values of the runs that replay the history
HistValues == { PyStr(<<233>>), PyInt(42), PyBytes(<<255>>) }

\* the value of the concurrent runs, where calls are told apart by owner
ConcValues == { PyInt(42) }

Threads == {"t1", "t2"}

KeyNames == <<"k1", "k2", "k3", "k4", "k5", "k6", "k7", "k8">>
\* the texts uuid4 can produce
KeySpace == { KeyNames[i] : i \in 1..MaxCalls }
\* a key no store call ever returns
NoKey == "nokey"
KeyChars(k) ==
    IF k = NoKey THEN <<110, 111>>
    ELSE <<107>> \o NatToDigits(CHOOSE i \in 1..Len(KeyNames) : KeyNames[i] = k)

\* the converters handed to get: none, lambda d: d.decode("utf-8"), int, float
Converters == {"none", "utf8", "int", "float"}

\* store.__qualname__
QualName == "Cache.store"

\* mutant of Wraps: a wrapper that keeps its own name
NoWraps(name) == "wrapper"

\* @wraps(method): the wrapper takes over the __qualname__ of what it wraps
Wraps(name) == name

\* store is call_history(count_calls(store)): count_calls names its counter
\* after store, call_history names its lists after count_calls' wrapper
InputsKey == Wraps(QualName) \o ":inputs"
OutputsKey == Wraps(QualName) \o ":outputs"
\* replay(cache.store) names its keys after the outer wrapper
ReplayKey == Wraps(Wraps(QualName))

(* ------------------------------ state ---------------------------------- *)
VARIABLES
    db,       \* Redis string keys: key -> bytes, for the keys that exist
    lists,    \* Redis list keys: key -> sequence of bytes elements
    expiry,   \* key -> second at which it expires, for the keys with a TTL
    now,      \* the clock, in seconds
    owner,    \* per list key, the call that appended each element
    issued,   \* the keys uuid4 has produced so far
    th,       \* per thread: position in store, its argument, its key, its call
    ret,      \* per thread: the last operation and what it returned or raised
    log,      \* the store calls in the order they were entered
    nflush,   \* Cache objects constructed after the first
    plog,     \* the get_page calls in order
    fetches   \* url -> number of external fetches performed

vars == <<db, lists, expiry, now, owner, issued, th, ret, log, nflush,
          plog, fetches>>

Empty == [k \in {} |-> <<>>]

(* --------------------------- Redis commands ---------------------------- *)
\* mutant of Present: a key is still served in the second it expires
PresentLate(d, e, t, k) == k \in DOMAIN d /\ (k \in DOMAIN e => t <= e[k])

Present(d, e, t, k) == k \in DOMAIN d /\ (k \in DOMAIN e => t < e[k])

\* GET: the bytes, or None
RedisGet(d, e, t, k) == IF Present(d, e, t, k) THEN PyBytes(d[k]) ELSE None

Put(f, k, x) == [j \in DOMAIN f \cup {k} |-> IF j = k THEN x ELSE f[j]]
Drop(f, k) == [j \in DOMAIN f \ {k} |-> f[j]]

\* INCR: an absent key counts from 0; the new count is kept as decimal text
RedisIncr(d, e, t, k) ==
    LET old == IF Present(d, e, t, k) THEN ParseInt(d[k]).v ELSE 0
    IN  Put(d, k, IntRepr(old + 1))

\* LRANGE key 0 -1
LRange(l, k) == IF k \in DOMAIN l THEN l[k] ELSE <<>>

\* mutant of RPush: the element is pushed at the head (LPUSH)
LPush(l, k, x) == Put(l, k, <<x>> \o LRange(l, k))

\* RPUSH
RPush(l, k, x) == Put(l, k, Append(LRange(l, k), x))

(* ----------------------------- Cache ----------------------------------- *)
IdleThread == [pc |-> "idle", arg |-> None, key |-> "", call |-> 0]
NoRet == [op |-> "", key |-> "", fn |-> "", val |-> None, out |-> <<>>]

\* mutant of Uuid4: a generator that may repeat a text
Uuid4Repeat(used) == KeySpace

\* str(uuid.uuid4()): a text never produced before
Uuid4(used) == KeySpace \ used

\* mutant of Construct: the backend is not flushed
ConstructNoFlush(c) ==
    /\ th[c].pc = "idle"
    /\ nflush < MaxFlush
    /\ nflush' = nflush + 1
    /\ ret' = [ret EXCEPT ![c] = [NoRet EXCEPT !.op = "Cache"]]
    /\ UNCHANGED <<db, lists, expiry, owner, now, issued, th, log, plog,
                   fetches>>

\* Cache.__init__: FLUSHDB
Construct(c) ==
    /\ th[c].pc = "idle"
    /\ nflush < MaxFlush
    /\ db' = Empty
    /\ lists' = Empty
    /\ expiry' = Empty
    /\ owner' = Empty
    /\ nflush' = nflush + 1
    /\ ret' = [ret EXCEPT ![c] = [NoRet EXCEPT !.op = "Cache"]]
    /\ UNCHANGED <<now, issued, th, log, plog, fetches>>

\* a caller enters store(data)
StoreCall(c, data) ==
    /\ th[c].pc = "idle"
    /\ Len(log) < MaxCalls
    /\ th' = [th EXCEPT ![c] = [pc |-> "rpush_in", arg |-> data, key |-> "",
                                 call |-> Len(log) + 1]]
    /\ log' = Append(log, [th |-> c, arg |-> data, key |-> "",
                           st |-> "running", epoch |-> nflush,
                           at |-> "", stack |-> "history(count)"])
    /\ ret' = [ret EXCEPT ![c] = NoRet]
    /\ UNCHANGED <<db, lists, expiry, now, owner, issued, nflush, plog, fetches>>

\* mutant of RpushInputs: the wrapper delegates before it records the input
RpushInputsLate(c) ==
    /\ th[c].pc = "rpush_in"
    /\ th' = [th EXCEPT ![c].pc = "incr"]
    /\ UNCHANGED <<db, lists, expiry, now, owner, issued, ret, log, nflush,
                   plog, fetches>>

\* call_history.wrapper: self._redis.rpush(inputs, str(args))
RpushInputs(c) ==
    /\ th[c].pc = "rpush_in"
    /\ lists' = RPush(lists, InputsKey, Encode(StrArgs(th[c].arg)))
    /\ owner' = RPush(owner, InputsKey, th[c].call)
    /\ th' = [th EXCEPT ![c].pc = "incr"]
    /\ UNCHANGED <<db, expiry, now, issued, ret, log, nflush, plog, fetches>>

\* mutant of IncrCalls: a read followed by a write, the read taken when the
\* call was entered (the calls entered before it, plus one)
IncrCallsStale(c) ==
    /\ th[c].pc = "incr"
    /\ db' = Put(db, QualName, IntRepr(th[c].call))
    /\ th' = [th EXCEPT ![c].pc = "set"]
    /\ UNCHANGED <<lists, expiry, now, owner, issued, ret, log, nflush, plog,
                   fetches>>

\* mutant of IncrCalls: the wrapper delegates without counting the call
IncrCallsSkipped(c) ==
    /\ th[c].pc = "incr"
    /\ th' = [th EXCEPT ![c].pc = "set"]
    /\ UNCHANGED <<db, lists, expiry, now, owner, issued, ret, log, nflush,
                   plog, fetches>>

\* count_calls.wrapper: self._redis.incr(key)
IncrCalls(c) ==
    /\ th[c].pc = "incr"
    /\ db' = RedisIncr(db, expiry, now, QualName)
    /\ th' = [th EXCEPT ![c].pc = "set"]
    /\ UNCHANGED <<lists, expiry, now, owner, issued, ret, log, nflush, plog,
                   fetches>>

\* Cache.store: key = str(uuid.uuid4()); self._redis.set(key, data)
SetData(c) ==
    /\ th[c].pc = "set"
    /\ \E k \in Uuid4(issued) :
        /\ issued' = issued \cup {k}
        /\ db' = Put(db, k, Encode(th[c].arg))
        /\ th' = [th EXCEPT ![c].pc = "rpush_out", ![c].key = k]
    /\ UNCHANGED <<lists, expiry, now, owner, ret, log, nflush, plog, fetches>>

\* call_history.wrapper: self._redis.rpush(outputs, str(data)); return data
RpushOutputs(c) ==
    /\ th[c].pc = "rpush_out"
    /\ lists' = RPush(lists, OutputsKey,
                      Encode(StrOf(PyStr(KeyChars(th[c].key)))))
    /\ owner' = RPush(owner, OutputsKey, th[c].call)
    /\ log' = [log EXCEPT ![th[c].call].st = "returned",
                          ![th[c].call].key = th[c].key]
    /\ ret' = [ret EXCEPT ![c] = [NoRet EXCEPT !.op = "store",
                                   !.val = PyStr(KeyChars(th[c].key))]]
    /\ th' = [th EXCEPT ![c] = IdleThread]
    /\ UNCHANGED <<db, expiry, now, issued, nflush, plog, fetches>>

\* mutant of BackendError: the wrapper records an output for the failed call
BackendErrorRecorded(c) ==
    /\ th[c].pc \in {"rpush_in", "incr", "set", "rpush_out"}
    /\ lists' = RPush(lists, OutputsKey, Encode(StrOf(None)))
    /\ owner' = RPush(owner, OutputsKey, th[c].call)
    /\ log' = [log EXCEPT ![th[c].call].st = "failed",
                          ![th[c].call].at = th[c].pc]
    /\ ret' = [ret EXCEPT ![c] = [NoRet EXCEPT !.op = "store",
                                   !.val = Raise("ConnectionError")]]
    /\ th' = [th EXCEPT ![c] = IdleThread]
    /\ UNCHANGED <<db, expiry, now, issued, nflush, plog, fetches>>

\* the backend call a store is about to make fails: the error propagates
\* through both wrappers to the caller
BackendError(c) ==
    /\ th[c].pc \in {"rpush_in", "incr", "set", "rpush_out"}
    /\ log' = [log EXCEPT ![th[c].call].st = "failed",
                          ![th[c].call].at = th[c].pc]
    /\ ret' = [ret EXCEPT ![c] = [NoRet EXCEPT !.op = "store",
                                   !.val = Raise("ConnectionError")]]
    /\ th' = [th EXCEPT ![c] = IdleThread]
    /\ UNCHANGED <<db, lists, expiry, now, owner, issued, nflush, plog, fetches>>

(* ---- the other stacking: store = count_calls(call_history(store)) ---- *)
\* count_calls names its counter after call_history's wrapper, call_history
\* names its lists after store
SwapCountKey == Wraps(QualName)
SwapInputsKey == QualName \o ":inputs"
SwapOutputsKey == QualName \o ":outputs"

\* a caller enters store(data) of the class stacked the other way
SwapStoreCall(c, data) ==
    /\ th[c].pc = "idle"
    /\ Len(log) < MaxCalls
    /\ th' = [th EXCEPT ![c] = [pc |-> "swap_incr", arg |-> data, key |-> "",
                                 call |-> Len(log) + 1]]
    /\ log' = Append(log, [th |-> c, arg |-> data, key |-> "",
                           st |-> "running", epoch |-> nflush,
                           at |-> "", stack |-> "count(history)"])
    /\ ret' = [ret EXCEPT ![c] = NoRet]
    /\ UNCHANGED <<db, lists, expiry, now, owner, issued, nflush, plog, fetches>>

\* count_calls.wrapper, outermost: self._redis.incr(key)
SwapIncrCalls(c) ==
    /\ th[c].pc = "swap_incr"
    /\ db' = RedisIncr(db, expiry, now, SwapCountKey)
    /\ th' = [th EXCEPT ![c].pc = "swap_rpush_in"]
    /\ UNCHANGED <<lists, expiry, now, owner, issued, ret, log, nflush, plog,
                   fetches>>

\* call_history.wrapper, inside: self._redis.rpush(inputs, str(args))
SwapRpushInputs(c) ==
    /\ th[c].pc = "swap_rpush_in"
    /\ lists' = RPush(lists, SwapInputsKey, Encode(StrArgs(th[c].arg)))
    /\ owner' = RPush(owner, SwapInputsKey, th[c].call)
    /\ th' = [th EXCEPT ![c].pc = "swap_set"]
    /\ UNCHANGED <<db, expiry, now, issued, ret, log, nflush, plog, fetches>>

\* Cache.store: key = str(uuid.uuid4()); self._redis.set(key, data)
SwapSetData(c) ==
    /\ th[c].pc = "swap_set"
    /\ \E k \in Uuid4(issued) :
        /\ issued' = issued \cup {k}
        /\ db' = Put(db, k, Encode(th[c].arg))
        /\ th' = [th EXCEPT ![c].pc = "swap_rpush_out", ![c].key = k]
    /\ UNCHANGED <<lists, expiry, now, owner, ret, log, nflush, plog, fetches>>

\* call_history.wrapper, inside: self._redis.rpush(outputs, str(data)); the
\* key is returned through count_calls.wrapper
SwapRpushOutputs(c) ==
    /\ th[c].pc = "swap_rpush_out"
    /\ lists' = RPush(lists, SwapOutputsKey,
                      Encode(StrOf(PyStr(KeyChars(th[c].key)))))
    /\ owner' = RPush(owner, SwapOutputsKey, th[c].call)
    /\ log' = [log EXCEPT ![th[c].call].st = "returned",
                          ![th[c].call].key = th[c].key]
    /\ ret' = [ret EXCEPT ![c] = [NoRet EXCEPT !.op = "store",
                                   !.val = PyStr(KeyChars(th[c].key))]]
    /\ th' = [th EXCEPT ![c] = IdleThread]
    /\ UNCHANGED <<db, expiry, now, issued, nflush, plog, fetches>>

\* fn(data) for the converters of the model
ApplyFn(fn, data) ==
    CASE fn = "utf8"  -> IF data.t = "None" THEN Raise("AttributeError")
                         ELSE Decode(data.v)
      [] fn = "int"   -> IF data.t = "None" THEN Raise("TypeError")
                         ELSE ParseInt(data.v)
      [] fn = "float" -> IF data.t = "None" THEN Raise("TypeError")
                         ELSE ParseFloat(data.v)

\* mutant of CacheGet: the converter is applied only to a truthy value
CacheGetIfData(d, e, t, key, fn) ==
    LET data == RedisGet(d, e, t, key)
    IN  IF fn # "none" /\ data.t = "bytes" /\ data.v # <<>>
        THEN ApplyFn(fn, data) ELSE data

\* Cache.get: data = self._redis.get(key); if fn: return fn(data); return data
CacheGet(d, e, t, key, fn) ==
    LET data == RedisGet(d, e, t, key)
    IN  IF fn # "none" THEN ApplyFn(fn, data) ELSE data

\* Cache.get_str: data.decode("utf-8")
CacheGetStr(d, e, t, key) == ApplyFn("utf8", RedisGet(d, e, t, key))

\* int(value.decode("utf-8")) in get_int: the name `value` is bound nowhere
TryInt(data) == Raise("NameError")

\* Cache.get_int: try: data = int(...) except Exception: data = 0
CacheGetInt(d, e, t, key) ==
    LET data == RedisGet(d, e, t, key)
        r == TryInt(data)
    IN  IF r.t = "exc" THEN PyInt(0) ELSE r

Min(a, b) == IF a < b THEN a ELSE b

\* mutant of Zip: the last pair is left out
ZipShort(a, b) == [i \in 1..(Min(Len(a), Len(b)) - 1) |-> <<a[i], b[i]>>]

\* list(zip(inputList, outputList))
Zip(a, b) == [i \in 1..Min(Len(a), Len(b)) |-> <<a[i], b[i]>>]

\* the loop of replay: one printed line per pair, until a decode raises
RECURSIVE ReplayLoop(_, _)
ReplayLoop(z, printed) ==
    IF z = <<>> THEN [val |-> None, out |-> printed]
    ELSE LET attr == Decode(Head(z)[1])
             data == Decode(Head(z)[2])
         IN  IF attr.t = "exc" THEN [val |-> attr, out |-> printed]
             ELSE IF data.t = "exc" THEN [val |-> data, out |-> printed]
             ELSE ReplayLoop(Tail(z),
                     Append(printed, [fmt |-> "{}(*{}) -> {}", name |-> ReplayKey,
                                      a |-> attr.v, b |-> data.v]))

\* mutant of ReplayRun: an absent counter is reported as 0 calls
ReplayRunZero(d, e, t, l) ==
    LET raw == RedisGet(d, e, t, ReplayKey)
        count == IF raw.t = "None" THEN PyStr(<<48>>) ELSE ApplyFn("utf8", raw)
    IN  IF count.t = "exc" THEN [val |-> count, out |-> <<>>]
        ELSE ReplayLoop(Zip(LRange(l, ReplayKey \o ":inputs"),
                            LRange(l, ReplayKey \o ":outputs")),
                        << [fmt |-> "{} was called {} times:", name |-> ReplayKey,
                            a |-> count.v, b |-> <<>>] >>)

\* replay(cache.store)
ReplayRun(d, e, t, l) ==
    LET raw == RedisGet(d, e, t, ReplayKey)
        count == ApplyFn("utf8", raw)
    IN  IF count.t = "exc" THEN [val |-> count, out |-> <<>>]
        ELSE ReplayLoop(Zip(LRange(l, ReplayKey \o ":inputs"),
                            LRange(l, ReplayKey \o ":outputs")),
                        << [fmt |-> "{} was called {} times:", name |-> ReplayKey,
                            a |-> count.v, b |-> <<>>] >>)

\* mutant of Get: get is decorated with count_calls under store's name
GetCounted(c, key, fn) ==
    /\ th[c].pc = "idle"
    /\ db' = RedisIncr(db, expiry, now, QualName)
    /\ ret' = [ret EXCEPT ![c] = [NoRet EXCEPT !.op = "get", !.key = key,
                   !.fn = fn, !.val = CacheGet(db, expiry, now, key, fn)]]
    /\ UNCHANGED <<lists, expiry, now, owner, issued, th, log, nflush,
                   plog, fetches>>

Get(c, key, fn) ==
    /\ th[c].pc = "idle"
    /\ ret' = [ret EXCEPT ![c] = [NoRet EXCEPT !.op = "get", !.key = key,
                   !.fn = fn, !.val = CacheGet(db, expiry, now, key, fn)]]
    /\ UNCHANGED <<db, lists, expiry, now, owner, issued, th, log, nflush,
                   plog, fetches>>

GetStr(c, key) ==
    /\ th[c].pc = "idle"
    /\ ret' = [ret EXCEPT ![c] = [NoRet EXCEPT !.op = "get_str", !.key = key,
                   !.val = CacheGetStr(db, expiry, now, key)]]
    /\ UNCHANGED <<db, lists, expiry, now, owner, issued, th, log, nflush,
                   plog, fetches>>

GetInt(c, key) ==
    /\ th[c].pc = "idle"
    /\ ret' = [ret EXCEPT ![c] = [NoRet EXCEPT !.op = "get_int", !.key = key,
                   !.val = CacheGetInt(db, expiry, now, key)]]
    /\ UNCHANGED <<db, lists, expiry, now, owner, issued, th, log, nflush,
                   plog, fetches>>

Replay(c) ==
    /\ th[c].pc = "idle"
    /\ LET r == ReplayRun(db, expiry, now, lists)
       IN  ret' = [ret EXCEPT ![c] = [NoRet EXCEPT !.op = "replay",
                       !.val = r.val, !.out = r.out]]
    /\ UNCHANGED <<db, lists, expiry, now, owner, issued, th, log, nflush,
                   plog, fetches>>

(* ------------------------------ web.py --------------------------------- *)
TTL == 10
Urls == {"u1", "u2"}
\* what the external GET can answer: "", "A"
Bodies == { PyStr(<<>>), PyStr(<<65>>) }
CountKey(url) == "count:" \o url
ResultKey(url) == "result:" \o url

\* SETEX key seconds value
SetEx(e, t, k, seconds) == Put(e, k, t + seconds)

\* bool(result) of what GET returned: None and b"" are false
Truthy(x) == x.t = "bytes" /\ x.v # <<>>

\* mutant of GetPage: a hit renews the TTL of the cached body
GetPageSliding(url) ==
    /\ Len(plog) < MaxPageCalls
    /\ LET d1 == RedisIncr(db, expiry, now, CountKey(url))
           result == RedisGet(d1, expiry, now, ResultKey(url))
       IN  IF Truthy(result)
           THEN /\ db' = d1
                /\ expiry' = SetEx(expiry, now, ResultKey(url), TTL)
                /\ plog' = Append(plog, [url |-> url, at |-> now,
                               fetched |-> FALSE, val |-> Decode(result.v)])
                /\ UNCHANGED fetches
           ELSE \E body \in Bodies :
                /\ fetches' = [fetches EXCEPT ![url] = @ + 1]
                /\ db' = Put(Put(d1, CountKey(url), Encode(PyInt(0))),
                             ResultKey(url), Encode(body))
                /\ expiry' = SetEx(Drop(expiry, CountKey(url)), now,
                                   ResultKey(url), TTL)
                /\ plog' = Append(plog, [url |-> url, at |-> now,
                               fetched |-> TRUE, val |-> body])
    /\ UNCHANGED <<lists, now, owner, issued, th, ret, log, nflush>>

\* count_url_calls.wrapper around get_page
GetPage(url) ==
    /\ Len(plog) < MaxPageCalls
    /\ LET d1 == RedisIncr(db, expiry, now, CountKey(url))
           result == RedisGet(d1, expiry, now, ResultKey(url))
       IN  IF Truthy(result)
           THEN /\ db' = d1
                /\ plog' = Append(plog, [url |-> url, at |-> now,
                               fetched |-> FALSE, val |-> Decode(result.v)])
                /\ UNCHANGED <<expiry, fetches>>
           ELSE \E body \in Bodies :
                /\ fetches' = [fetches EXCEPT ![url] = @ + 1]
                /\ db' = Put(Put(d1, CountKey(url), Encode(PyInt(0))),
                             ResultKey(url), Encode(body))
                /\ expiry' = SetEx(Drop(expiry, CountKey(url)), now,
                                   ResultKey(url), TTL)
                /\ plog' = Append(plog, [url |-> url, at |-> now,
                               fetched |-> TRUE, val |-> body])
    /\ UNCHANGED <<lists, now, owner, issued, th, ret, log, nflush>>

\* a second passes
Tick ==
    /\ now < MaxTime
    /\ now' = now + 1
    /\ UNCHANGED <<db, lists, expiry, owner, issued, th, ret, log, nflush,
                   plog, fetches>>

(* -------------------------- specifications ----------------------------- *)
Init ==
    /\ db = Empty
    /\ lists = Empty
    /\ expiry = Empty
    /\ now = 0
    /\ owner = Empty
    /\ issued = {}
    /\ th = [c \in Threads |-> IdleThread]
    /\ ret = [c \in Threads |-> NoRet]
    /\ log = <<>>
    /\ nflush = 0
    /\ plog = <<>>
    /\ fetches = [u \in Urls |-> 0]

Main == "t1"
GetKeys == KeySpace \cup {NoKey}

\* one caller storing through a Cache and replaying the history, while
\* backend calls may fail and further Cache objects may be constructed
Next ==
    \/ Construct(Main)
    \/ \E data \in HistValues : StoreCall(Main, data)
    \/ RpushInputs(Main)
    \/ IncrCalls(Main)
    \/ SetData(Main)
    \/ RpushOutputs(Main)
    \/ BackendError(Main)
    \/ Replay(Main)

Spec == Init /\ [][Next]_vars

\* one caller storing values in one Cache and reading them back
ReadNext ==
    \/ \E data \in Values : StoreCall(Main, data)
    \/ RpushInputs(Main)
    \/ IncrCalls(Main)
    \/ SetData(Main)
    \/ RpushOutputs(Main)
    \/ \E key \in GetKeys, fn \in Converters : Get(Main, key, fn)
    \/ \E key \in GetKeys : GetStr(Main, key)
    \/ \E key \in GetKeys : GetInt(Main, key)

SpecRead == Init /\ [][ReadNext]_vars

\* several threads storing through the shared backend
ConcNext ==
    \/ \E c \in Threads : Construct(c)
    \/ \E c \in Threads, data \in ConcValues : StoreCall(c, data)
    \/ \E c \in Threads : RpushInputs(c)
    \/ \E c \in Threads : IncrCalls(c)
    \/ \E c \in Threads : SetData(c)
    \/ \E c \in Threads : RpushOutputs(c)
    \/ \E c \in Threads : BackendError(c)

SpecConc == Init /\ [][ConcNext]_vars

\* every call so far went through the stacking s
Stacked(s) == \A i \in 1..Len(log) : log[i].stack = s

\* one caller storing through a Cache class whose store is stacked one way
\* or the other, the same way for the whole run
StackNext ==
    \/ \E data \in Values : Stacked("history(count)") /\ StoreCall(Main, data)
    \/ RpushInputs(Main)
    \/ IncrCalls(Main)
    \/ SetData(Main)
    \/ RpushOutputs(Main)
    \/ \E data \in Values :
            Stacked("count(history)") /\ SwapStoreCall(Main, data)
    \/ SwapIncrCalls(Main)
    \/ SwapRpushInputs(Main)
    \/ SwapSetData(Main)
    \/ SwapRpushOutputs(Main)

SpecStack == Init /\ [][StackNext]_vars

\* one caller fetching pages while time passes
WebNext ==
    \/ \E url \in Urls : GetPage(url)
    \/ Tick

SpecWeb == Init /\ [][WebNext]_vars

(* ------------------------------ claims --------------------------------- *)
\* the store calls made on the Cache constructed last, in call order
Calls == SelectSeq(log, LAMBDA e : e.epoch = nflush)
AllReturned(cs) == \A i \in 1..Len(cs) : cs[i].st = "returned"
Idle == \A c \in Threads : th[c].pc = "idle"
\* the converter that inverts the backend's encoding of a value of type ty
Inverse(ty) ==
    CASE ty = "str" -> "utf8" [] ty = "bytes" -> "none"
      [] ty = "int" -> "int" [] ty = "float" -> "float"
\* the bytes the backend keeps for v, computed from the type's own rule
RawBytesOf(v) ==
    CASE v.t = "str" -> Utf8Encode(v.v) [] v.t = "bytes" -> v.v
      [] v.t = "int" -> IntRepr(v.v) [] v.t = "float" -> FloatRepr(v.v)

\* C1: round-trip law. Whenever get(k, fn) has just returned, where k is the
\* key an earlier store(v) returned on this Cache and fn inverts the encoding
\* of v's type, the result is v itself, which is fn applied to the raw bytes
\* of v, whatever other store calls were made in between.
C1_RoundTrip ==
    \A i \in 1..Len(log) :
        ( /\ log[i].st = "returned"
          /\ ret[Main].op = "get"
          /\ ret[Main].key = log[i].key
          /\ ret[Main].fn = Inverse(log[i].arg.t) )
        => /\ ret[Main].val = log[i].arg
           /\ ret[Main].fn # "none"
                => ret[Main].val = ApplyFn(ret[Main].fn,
                                           PyBytes(RawBytesOf(log[i].arg)))

\* C1 witness: the empty string stored first, another value stored after it,
\* then the first key read back through the UTF-8 decoder.
C1_Witness ==
    /\ Len(log) = 2 /\ AllReturned(log)
    /\ log[1].arg = PyStr(<<>>)
    /\ ret[Main].op = "get" /\ ret[Main].key = log[1].key
    /\ ret[Main].fn = "utf8" /\ ret[Main].val = PyStr(<<>>)

\* C2: once N >= 1 store calls have been made on the Cache constructed last
\* and each has returned, the N keys are pairwise distinct and the counter
\* kept under "Cache.store" reads N.
C2_DistinctKeysAndCount ==
    (Idle /\ Len(Calls) >= 1 /\ AllReturned(Calls))
    => /\ \A i, j \in 1..Len(Calls) : i # j => Calls[i].key # Calls[j].key
       /\ RedisGet(db, expiry, now, QualName) = PyBytes(IntRepr(Len(Calls)))

\* C2 witness: two store calls on one Cache have both returned.
C2_Witness ==
    /\ Idle /\ Len(Calls) = 2 /\ AllReturned(Calls)
    /\ Calls[1].key # Calls[2].key
    /\ db[QualName] = <<50>>

\* C3: once K store calls have been made on the Cache constructed last and
\* each has returned, both history lists have length K, inputs[i] is the
\* serialized argument tuple of the i-th call and outputs[i] is the key that
\* call returned.
C3_HistoryPairs ==
    (Idle /\ AllReturned(Calls))
    => /\ Len(LRange(lists, InputsKey)) = Len(Calls)
       /\ Len(LRange(lists, OutputsKey)) = Len(Calls)
       /\ \A i \in 1..Len(Calls) :
            /\ Decode(LRange(lists, InputsKey)[i]) = StrArgs(Calls[i].arg)
            /\ Decode(LRange(lists, OutputsKey)[i])
                 = PyStr(KeyChars(Calls[i].key))

\* C3 witness: two calls with different arguments have returned and the
\* second input is the tuple text of the second argument.
C3_Witness ==
    /\ Idle /\ Len(Calls) = 2 /\ AllReturned(Calls)
    /\ Calls[1].arg # Calls[2].arg
    /\ Len(LRange(lists, InputsKey)) = 2
    /\ Len(LRange(lists, OutputsKey)) = 2

\* C4: get(key, fn) on a key that was never stored returns None for every
\* fn: the converter is not applied and nothing is raised.
C4_AbsentGivesNone ==
    (ret[Main].op = "get" /\ ret[Main].key \notin issued)
    => ret[Main].val = None

\* C5: a get_page(url) call made less than TTL seconds after a call that
\* fetched the same url does not fetch: it returns the body of that call,
\* whatever the body is.
C5_HitWithinTtl ==
    \A i, j \in 1..Len(plog) :
        ( /\ i < j
          /\ plog[i].url = plog[j].url
          /\ plog[i].fetched
          /\ plog[j].at - plog[i].at < TTL
          /\ \A m \in (i + 1)..(j - 1) : plog[m].url # plog[i].url )
        => /\ ~plog[j].fetched
           /\ plog[j].val = plog[i].val

\* the get_page calls made so far for url
PageCalls(url) == SelectSeq(plog, LAMBDA e : e.url = url)

\* C6: after n >= 1 get_page(url) calls the counter "count:<url>" reads n.
C6_CounterCountsCalls ==
    \A url \in Urls :
        Len(PageCalls(url)) >= 1
        => RedisGet(db, expiry, now, CountKey(url))
             = PyBytes(IntRepr(Len(PageCalls(url))))

\* C7: the first get_page(url) fetches, and a call made TTL seconds or more
\* after the previous call for the same url fetches again, so the two calls
\* perform two external fetches; the body fetched last is kept under
\* "result:<url>" with a TTL counted from that fetch.
C7_RefetchAfterTtl ==
    \A url \in Urls :
        LET pc == PageCalls(url)
            last == CHOOSE j \in 1..Len(pc) :
                        pc[j].fetched /\ \A m \in (j + 1)..Len(pc) : ~pc[m].fetched
        IN  /\ Len(pc) >= 1 => pc[1].fetched
            /\ \A j \in 2..Len(pc) :
                 pc[j].at - pc[j - 1].at >= TTL => pc[j].fetched
            /\ fetches[url] = Len(SelectSeq(pc, LAMBDA e : e.fetched))
            /\ Len(pc) >= 1
                 => /\ ResultKey(url) \in DOMAIN db
                    /\ db[ResultKey(url)] = Utf8Encode(pc[last].val.v)
                    /\ expiry[ResultKey(url)] = pc[last].at + TTL

\* C7 witness: two calls for one url, the second TTL seconds or more after
\* the first, and two fetches counted.
C7_Witness ==
    \E url \in Urls :
        /\ Len(PageCalls(url)) = 2
        /\ PageCalls(url)[2].at - PageCalls(url)[1].at >= TTL
        /\ PageCalls(url)[2].fetched
        /\ fetches[url] = 2
        /\ expiry[ResultKey(url)] = PageCalls(url)[2].at + TTL

\* C8: get_int(k) returns n when k is the key store(n) returned, for every
\* integer n.
C8_GetIntRoundTrip ==
    \A i \in 1..Len(log) :
        ( /\ log[i].st = "returned"
          /\ log[i].arg.t = "int"
          /\ ret[Main].op = "get_int"
          /\ ret[Main].key = log[i].key )
        => ret[Main].val = log[i].arg

\* the line replay prints for one call
CallLine(e) ==
    [fmt |-> "{}(*{}) -> {}", name |-> QualName,
     a |-> StrArgs(e.arg).v, b |-> KeyChars(e.key)]

\* C9: replay after K >= 1 store calls on the Cache constructed last, each
\* of which returned, raises nothing and prints the header with K, then
\* exactly K lines in call order, the i-th showing the i-th call's argument
\* tuple and the key it returned.
C9_ReplayPrints ==
    (ret[Main].op = "replay" /\ Len(Calls) >= 1 /\ AllReturned(Calls))
    => /\ ret[Main].val = None
       /\ Len(ret[Main].out) = Len(Calls) + 1
       /\ ret[Main].out[1] = [fmt |-> "{} was called {} times:",
                              name |-> QualName,
                              a |-> NatToDigits(Len(Calls)), b |-> <<>>]
       /\ \A i \in 1..Len(Calls) : ret[Main].out[i + 1] = CallLine(Calls[i])

\* C9 witness: replay after two calls with different arguments printed three
\* lines.
C9_Witness ==
    /\ ret[Main].op = "replay" /\ Len(Calls) = 2 /\ AllReturned(Calls)
    /\ Calls[1].arg # Calls[2].arg
    /\ Len(ret[Main].out) = 3

\* C10: once every concurrent store call has returned, and all succeeded on
\* one Cache, the history lists have equal length and inputs[i] and
\* outputs[i] were appended by the same call, for every i.
C10_ConcurrentPairing ==
    (Idle /\ nflush = 0 /\ AllReturned(log))
    => /\ Len(LRange(lists, InputsKey)) = Len(LRange(lists, OutputsKey))
       /\ \A i \in 1..Len(LRange(lists, OutputsKey)) :
            LRange(owner, InputsKey)[i] = LRange(owner, OutputsKey)[i]

\* the number the counter "Cache.store" holds, 0 when the key is absent
CounterValue ==
    IF QualName \in DOMAIN db THEN ParseInt(db[QualName]).v ELSE 0
\* the calls whose increment has been executed, and those whose set has
Counted(i) ==
    \/ log[i].st = "returned"
    \/ log[i].st = "failed" /\ log[i].at \in {"set", "rpush_out"}
    \/ log[i].st = "running" /\ th[log[i].th].pc \in {"set", "rpush_out"}
Written(i) ==
    \/ log[i].st = "returned"
    \/ log[i].st = "failed" /\ log[i].at = "rpush_out"
    \/ log[i].st = "running" /\ th[log[i].th].pc = "rpush_out"
\* the calls made on the Cache constructed last, as indices of the log
EpochCalls == { i \in 1..Len(log) : log[i].epoch = nflush }
Elems(q) == { q[i] : i \in 1..Len(q) }

\* C11: with no Cache constructed meanwhile, under every interleaving the
\* counter equals the number of calls whose increment was executed; once N
\* concurrent calls have all returned it reads N: no update is lost.
C11_NoLostUpdates ==
    nflush = 0
    => /\ CounterValue = Cardinality({ i \in 1..Len(log) : Counted(i) })
       /\ (Idle /\ Len(log) >= 1 /\ AllReturned(log))
            => RedisGet(db, expiry, now, QualName) = PyBytes(IntRepr(Len(log)))

\* C11 witness: two calls overlapped (the second returned first), both
\* returned, and the counter reads 2.
C11_Witness ==
    /\ Idle /\ nflush = 0 /\ Len(log) = 2 /\ AllReturned(log)
    /\ LRange(owner, InputsKey) = <<1, 2>>
    /\ LRange(owner, OutputsKey) = <<2, 1>>
    /\ db[QualName] = <<50>>

\* C12: a call that failed during the increment or the set has its input in
\* the inputs list and nothing in the outputs list, and the caller got the
\* error; when every failure of the run is of that kind, the inputs list is
\* longer than the outputs list by the number F of failed calls.
C12_FailedCallKeepsInput ==
    LET failed == { i \in EpochCalls : log[i].st = "failed" }
        inOp == { i \in failed : log[i].at \in {"incr", "set"} }
    IN  /\ \A i \in inOp :
             /\ i \in Elems(LRange(owner, InputsKey))
             /\ i \notin Elems(LRange(owner, OutputsKey))
        /\ (th[Main].pc = "idle" /\ ret[Main].op = "store" /\ Len(log) >= 1)
             => (ret[Main].val = Raise("ConnectionError")
                    <=> log[Len(log)].st = "failed")
        /\ (th[Main].pc = "idle" /\ failed = inOp)
             => Len(LRange(lists, InputsKey))
                  = Len(LRange(lists, OutputsKey)) + Cardinality(failed)

\* C12 witness: one call failed at the set, one succeeded: two inputs, one
\* output.
C12_Witness ==
    /\ th[Main].pc = "idle" /\ nflush = 0 /\ Len(log) = 2
    /\ log[1].st = "failed" /\ log[1].at = "set"
    /\ log[2].st = "returned"
    /\ Len(LRange(lists, InputsKey)) = 2
    /\ Len(LRange(lists, OutputsKey)) = 1

\* C13: replay prints min(len(inputs), len(outputs)) lines and each printed
\* line pairs the input of a call with the output of that same call, for any
\* sequence of succeeding and failing calls.
C13_ReplayPairsSameCall ==
    (ret[Main].op = "replay" /\ ret[Main].val = None)
    => /\ Len(ret[Main].out) - 1
            = Min(Len(LRange(lists, InputsKey)), Len(LRange(lists, OutputsKey)))
       /\ \A i \in 1..(Len(ret[Main].out) - 1) :
            /\ LRange(owner, InputsKey)[i] = LRange(owner, OutputsKey)[i]
            /\ ret[Main].out[i + 1].a
                 = StrArgs(log[LRange(owner, OutputsKey)[i]].arg).v

\* C14: counter first. On the Cache constructed last, the counter is never
\* below the number of values store has written: it exceeds it by exactly
\* the calls that were counted and whose set failed or is still to run.
C14_CounterFirst ==
    LET stored == Cardinality(DOMAIN db \cap KeySpace)
        unset == { i \in EpochCalls : Counted(i) /\ ~Written(i) }
    IN  /\ CounterValue >= stored
        /\ CounterValue = stored + Cardinality(unset)

\* C14 witness: a call failed at the set: counted, nothing written.
C14_Witness ==
    /\ th[Main].pc = "idle" /\ Len(log) = 1
    /\ log[1].st = "failed" /\ log[1].at = "set"
    /\ CounterValue = 1
    /\ DOMAIN db \cap KeySpace = {}

\* C15: in every step the counter either stays, or grows by exactly one in
\* the increment of a store call, or is reset by the construction of a Cache,
\* the only step after which it is smaller.
C15_CounterMonotone ==
    [][ IF nflush' # nflush
        THEN CounterValue' = 0
        ELSE \/ /\ CounterValue' = CounterValue
                /\ ~\E c \in Threads : th[c].pc = "incr" /\ th'[c].pc = "set"
             \/ /\ CounterValue' = CounterValue + 1
                /\ \E c \in Threads : th[c].pc = "incr" /\ th'[c].pc = "set"
      ]_vars

\* C15 witness: the counter was reset by a construction and counted again.
C15_Witness ==
    /\ nflush = 1 /\ CounterValue = 1
    /\ \E i \in 1..Len(log) : log[i].epoch = 0 /\ log[i].st = "returned"

\* C16: whichever way store is stacked, once the calls of a run have all
\* returned the counter is under "Cache.store" and reads their number, the
\* lists under "Cache.store:inputs" and "Cache.store:outputs" hold their
\* argument tuples and keys in call order, and nothing else was recorded.
C16_StackingOrder ==
    (Idle /\ Len(log) >= 1 /\ AllReturned(log))
    => /\ DOMAIN db \ KeySpace = {"Cache.store"}
       /\ db["Cache.store"] = NatToDigits(Len(log))
       /\ DOMAIN lists = {"Cache.store:inputs", "Cache.store:outputs"}
       /\ lists["Cache.store:inputs"]
            = [i \in 1..Len(log) |-> Utf8Encode(StrArgs(log[i].arg).v)]
       /\ lists["Cache.store:outputs"]
            = [i \in 1..Len(log) |-> Utf8Encode(KeyChars(log[i].key))]

\* C16 witness: two calls returned through count_calls around call_history.
C16_Witness ==
    /\ Idle /\ Len(log) = 2 /\ AllReturned(log)
    /\ Stacked("count(history)")
    /\ log[1].arg # log[2].arg

ReadOps == {"get", "get_str", "get_int"}

\* C17: a step in which get, get_str or get_int runs, whether it returns or
\* raises, leaves the counter, both history lists and every stored value as
\* they were.
C17_ReadsChangeNothing ==
    [][ ( /\ th[Main].pc = "idle" /\ th'[Main].pc = "idle"
          /\ ret'[Main].op \in ReadOps )
        => /\ db' = db
           /\ lists' = lists
           /\ expiry' = expiry
      ]_vars

\* C17 witness: get_str raised on an absent key after one store call.
C17_Witness ==
    /\ ret[Main].op = "get_str" /\ ret[Main].val = Raise("AttributeError")
    /\ CounterValue = 1
    /\ Len(LRange(lists, InputsKey)) = 1 /\ Len(LRange(lists, OutputsKey)) = 1

\* C18: the cached body lives TTL seconds from the miss that stored it: a
\* call made TTL seconds or more after a fetch of the same url is preceded
\* by, or is itself, another fetch, however many hits came in between, and
\* every hit comes less than TTL seconds after a fetch of its url.
C18_TtlFromMiss ==
    /\ \A i, j \in 1..Len(plog) :
         ( /\ i < j
           /\ plog[i].url = plog[j].url
           /\ plog[i].fetched
           /\ plog[j].at - plog[i].at >= TTL )
         => \E m \in (i + 1)..j : plog[m].url = plog[i].url /\ plog[m].fetched
    /\ \A j \in 1..Len(plog) :
         ~plog[j].fetched
         => \E i \in 1..(j - 1) :
              /\ plog[i].url = plog[j].url /\ plog[i].fetched
              /\ plog[j].at - plog[i].at < TTL

\* C18 witness: a fetch, a hit inside the window, and a fetch again TTL
\* seconds after the first.
C18_Witness ==
    /\ Len(plog) = 3
    /\ plog[1].url = plog[2].url /\ plog[2].url = plog[3].url
    /\ plog[1].fetched /\ ~plog[2].fetched /\ plog[3].fetched
    /\ plog[2].at > plog[1].at
    /\ plog[3].at = plog[1].at + TTL

\* C19: while store calls interleave and backend calls fail on one Cache,
\* the outputs list is never longer than the inputs list and the counter is
\* never above the length of the inputs list.
C19_OutputsAndCounterBounded ==
    nflush = 0
    => /\ Len(LRange(lists, OutputsKey)) <= Len(LRange(lists, InputsKey))
       /\ CounterValue <= Len(LRange(lists, InputsKey))

\* C19 witness: one call was counted and failed at the set, a second call of
\* another thread has appended its input and is not yet counted.
C19_Witness ==
    /\ nflush = 0 /\ Len(log) = 2
    /\ log[1].st = "failed" /\ log[1].at = "set"
    /\ th[log[2].th].pc = "incr"
    /\ CounterValue = 1
    /\ Len(LRange(lists, InputsKey)) = 2
    /\ Len(LRange(lists, OutputsKey)) = 0

\* C20: replay on a Cache whose store was never called raises before it
\* prints anything.
C20_ReplayNeedsACall ==
    (ret[Main].op = "replay" /\ EpochCalls = {})
    => /\ ret[Main].val = Raise("AttributeError")
       /\ ret[Main].out = <<>>

\* C20 witness: replay raised on a Cache constructed after an earlier one
\* had stored a value.
C20_Witness ==
    /\ ret[Main].op = "replay" /\ EpochCalls = {}
    /\ nflush = 1 /\ Len(log) = 1 /\ log[1].st = "returned"
    /\ ret[Main].val = Raise("AttributeError")
=============================================================================
